---- MODULE Spec2Model ----
(***************************************************************************)
(* Model of markov.py: the frequency table builder (group_by_n,            *)
(* calculate_frequencies), the stream generator                            *)
(* (generate_random_stream_from_frequencies) and the predictor (predict,   *)
(* predict_from_history).                                                  *)
(*                                                                         *)
(* A Counter is a Python dict in insertion order: a sequence of            *)
(* <<symbol, count>> pairs.  The frequency table is a defaultdict(Counter):*)
(* a function from context tuples to Counters whose lookup of a missing    *)
(* key inserts an empty Counter.  A generator is suspended at one of its   *)
(* yield statements between two pulls; one pull runs it to its next yield. *)
(***************************************************************************)
EXTENDS Integers, Sequences, FiniteSets

\* ---------------------------------------------------------------- bounds
MaxLen == 4
MaxK == 2
MaxMixup == 2
MaxPulls == 4

Symbols == {"A", "B"}
Streams == {1, 2}

SeqsUpTo(n) == UNION {[1..m -> Symbols] : m \in 0..n}

Min(a, b) == IF a <= b THEN a ELSE b

Range(seq) == {seq[j] : j \in 1..Len(seq)}

\* ---------------------------------------------------------------- state
VARIABLES history, length_of_history, mixup_period, phase, built,
          frequencies, g, prediction, pfh

vars == <<history, length_of_history, mixup_period, phase, built,
          frequencies, g, prediction, pfh>>

\* ------------------------------------------------------ Counter (a dict)
counter_keys(count) == [j \in 1..Len(count) |-> count[j][1]]

counter_get(count, x) ==
    IF \E j \in 1..Len(count) : count[j][1] = x
    THEN count[CHOOSE j \in 1..Len(count) : count[j][1] = x][2]
    ELSE 0

\* count[x] = 1 for count[x] += 1
counter_incr_assign(count, x) ==
    IF \E j \in 1..Len(count) : count[j][1] = x
    THEN [j \in 1..Len(count) |->
            IF count[j][1] = x THEN <<x, 1>> ELSE count[j]]
    ELSE Append(count, <<x, 1>>)

\* count[x] += 1: a new key is appended at the end of the insertion order
counter_incr(count, x) ==
    IF \E j \in 1..Len(count) : count[j][1] = x
    THEN [j \in 1..Len(count) |->
            IF count[j][1] = x THEN <<x, count[j][2] + 1>> ELSE count[j]]
    ELSE Append(count, <<x, 1>>)

\* ------------------------------------------ defaultdict(Counter) lookup
\* frequencies[key]: a missing key is inserted with an empty Counter
defaultdict_getitem(table, key) ==
    IF key \in DOMAIN table
    THEN table
    ELSE [c \in (DOMAIN table) \cup {key} |->
            IF c = key THEN <<>> ELSE table[c]]

EmptyTable == [c \in {} |-> <<>>]

\* ------------------------------------------------------------ group_by_n
\* tee(iterator, n): n independent copies
tee(iterator, n) == [p \in 1..n |-> iterator]

\* skip_items with the break taken one item late (i == j for i - 1 == j)
skip_items_late_break(iterator, i) ==
    IF i = 0 THEN iterator ELSE SubSeq(iterator, i + 2, Len(iterator))

\* the inner loop of group_by_n: copy number i (0-based) consumes items
\* j = 0 .. i-1 and breaks, or runs out of items before that
skip_items(iterator, i) == SubSeq(iterator, i + 1, Len(iterator))

MinLen(parallels) ==
    CHOOSE m \in {Len(parallels[p]) : p \in 1..Len(parallels)} :
        \A p \in 1..Len(parallels) : m <= Len(parallels[p])

\* zip that runs on to the end of the longest copy and leaves out the copies
\* that have run out (the windows at the tail are shorter)
zip_longest(parallels) ==
    IF Len(parallels) = 0 THEN <<>>
    ELSE [j \in 1..Len(parallels[1]) |->
            [p \in 1..Cardinality({q \in 1..Len(parallels) :
                                     j <= Len(parallels[q])}) |->
                parallels[p][j]]]

\* zip(*parallels): stops at the shortest
zip(parallels) ==
    IF Len(parallels) = 0 THEN <<>>
    ELSE [j \in 1..MinLen(parallels) |->
            [p \in 1..Len(parallels) |-> parallels[p][j]]]

group_by_n(iterator, n) ==
    LET parallels == tee(iterator, n)
    IN zip([p \in 1..n |-> skip_items(parallels[p], p - 1)])

\* ------------------------------------------------- calculate_frequencies
\* count_window that also looks up the context the window leaves behind,
\* which the defaultdict then holds with no successor
count_window_touching_next(table, window) ==
    LET pre == SubSeq(window, 1, Len(window) - 1)
        next_word == window[Len(window)]
        t == defaultdict_getitem(table, pre)
        t2 == [t EXCEPT ![pre] = counter_incr(@, next_word)]
    IN defaultdict_getitem(t2, Tail(window))

\* frequencies[tuple(pre)][next_word] += 1
count_window(table, window) ==
    LET pre == SubSeq(window, 1, Len(window) - 1)
        next_word == window[Len(window)]
        t == defaultdict_getitem(table, pre)
    IN [t EXCEPT ![pre] = counter_incr(@, next_word)]

RECURSIVE fold_windows(_, _, _)
fold_windows(table, windows, j) ==
    IF j > Len(windows) THEN table
    ELSE fold_windows(count_window(table, windows[j]), windows, j + 1)

calculate_frequencies(hist, n) ==
    fold_windows(EmptyTable, group_by_n(hist, n + 1), 1)

\* ------------------------------- generate_random_stream_from_frequencies
\* a generator object that was created and not pulled yet: no line of the
\* body has run
NewGenerator ==
    [pc |-> "created", known_subsequences |-> {}, recent |-> <<>>,
     item |-> "none", pend |-> <<>>, options |-> <<>>, i |-> 0,
     out |-> <<>>, ctx |-> <<>>, chosen |-> <<>>, mixed |-> FALSE,
     tick_at |-> 0]

\* recent as a plain list: nothing is evicted
deque_append_unbounded(recent, x, maxlen) == Append(recent, x)

\* a full buffer that drops the new item and keeps the oldest
deque_append_drops_new(recent, x, maxlen) ==
    IF maxlen = 0 THEN <<>>
    ELSE IF Len(recent) = maxlen THEN recent
    ELSE Append(recent, x)

\* recent.append(item) on a deque(maxlen=length_of_history)
deque_append(recent, x, maxlen) ==
    IF maxlen = 0 THEN <<>>
    ELSE IF Len(recent) = maxlen THEN Append(Tail(recent), x)
    ELSE Append(recent, x)

\* `yield item` inside `for item in random.choice(known_subsequences)`:
\* the generator is suspended at the yield named by `where`, the rest of
\* the chosen tuple is still to be yielded
yield_chosen(r, c, where) ==
    [r EXCEPT !.pc = where, !.item = Head(c), !.pend = Tail(c),
              !.out = Append(@, Head(c)), !.chosen = c]

\* `yield item` inside `for item in random.choices(options, weights)`
yield_sampled(r, x) ==
    [r EXCEPT !.pc = "step", !.item = x, !.pend = <<>>,
              !.out = Append(@, x)]

\* the next item of the for loop the generator is suspended in
yield_pending(r) ==
    [r EXCEPT !.item = Head(r.pend), !.pend = Tail(r.pend),
              !.out = Append(@, Head(r.pend))]

\* sampled with every weight one too small (an option seen once can never
\* be drawn)
sampled_off_by_one(count) ==
    {count[j][1] : j \in {n \in 1..Len(count) : count[n][2] - 1 > 0}}

\* random.choices(options, weights): an option of positive weight
sampled(count) ==
    {count[j][1] : j \in {n \in 1..Len(count) : count[n][2] > 0}}

\* try_yields without the except clause: the IndexError of random.choices
\* leaves the generator
try_yields_no_handler(r) ==
    IF r.options # <<>>
    THEN {yield_sampled(r, x) : x \in sampled(r.options)}
    ELSE {[r EXCEPT !.pc = "raised"]}

\* try_yields whose handler also runs when a successor was sampled
try_yields_unguarded(r) ==
    {yield_sampled(r, x) : x \in sampled(r.options)}
    \cup {yield_chosen(r, c, "recover") : c \in r.known_subsequences \ {<<>>}}

\* lines 78-86: sample one successor; with no options random.choices raises
\* IndexError and the handler yields a known subsequence (the empty tuple
\* yields nothing)
try_yields(r) ==
    IF r.options # <<>>
    THEN {yield_sampled(r, x) : x \in sampled(r.options)}
    ELSE {yield_chosen(r, c, "recover") : c \in r.known_subsequences \ {<<>>}}

\* lines 69-86: one round of the while loop.  The lookup is on a defaultdict,
\* options and weights are taken before the mixup, and i is never changed.
\* A round that yields nothing (the empty tuple was chosen) is followed by
\* an identical round, so the pull never returns when no choice can yield.
loop_top(r, table) ==
    LET t == defaultdict_getitem(table, r.recent)
        domix == mixup_period # 0 /\ r.i % mixup_period = 0
        r2 == [r EXCEPT !.ctx = r.recent, !.options = t[r.recent],
                        !.mixed = domix, !.tick_at = Len(r.out)]
        mix == IF domix
               THEN {yield_chosen(r2, c, "mixup") :
                        c \in r.known_subsequences \ {<<>>}}
               ELSE {}
        reach_try == ~domix \/ <<>> \in r.known_subsequences
        yields == mix \cup (IF reach_try THEN try_yields(r2) ELSE {})
    IN {[gen |-> o, table |-> t] :
            o \in IF yields = {} THEN {[r2 EXCEPT !.pc = "diverged"]}
                  ELSE yields}

\* lines 78-86 after the mixup loop has yielded its last item: the options
\* are those taken before the mixup
after_mixup(r, table) ==
    {[gen |-> o, table |-> table] : o \in try_yields(r)}
    \cup (IF r.options = <<>> /\ <<>> \in r.known_subsequences
          THEN loop_top(r, table) ELSE {})

\* first_pull with the seed choice inside the retry loop: an empty list of
\* known subsequences is retried for ever instead of raising
first_pull_retrying(r, table) ==
    LET known == DOMAIN table
        r2 == [r EXCEPT !.known_subsequences = known]
    IN IF known = {}
       THEN {[gen |-> [r2 EXCEPT !.pc = "diverged"], table |-> table]}
       ELSE {[gen |-> yield_chosen(r2, c, "seed"), table |-> table] :
                c \in known \ {<<>>}}
            \cup (IF <<>> \in known THEN loop_top(r2, table) ELSE {})

\* lines 61-65: the first pull
first_pull(r, table) ==
    LET known == DOMAIN table
        r2 == [r EXCEPT !.known_subsequences = known]
    IN IF known = {}
       THEN {[gen |-> [r2 EXCEPT !.pc = "raised"], table |-> table]}
       ELSE {[gen |-> yield_chosen(r2, c, "seed"), table |-> table] :
                c \in known \ {<<>>}}
            \cup (IF <<>> \in known THEN loop_top(r2, table) ELSE {})

\* a later pull: the generator resumes after its yield
resume(r, table) ==
    LET r2 == [r EXCEPT !.recent =
                    deque_append(r.recent, r.item, length_of_history)]
    IN IF r.pend # <<>>
       THEN {[gen |-> yield_pending(r2), table |-> table]}
       ELSE IF r.pc = "mixup"
            THEN after_mixup(r2, table)
            ELSE loop_top(r2, table)

next_outcomes(r, table) ==
    IF r.pc = "created" THEN first_pull(r, table) ELSE resume(r, table)

\* next(stream): one pull by the consumer
generate_random_stream_from_frequencies(s) ==
    /\ phase = "built"
    /\ g[s].pc \in {"created", "seed", "mixup", "step", "recover"}
    /\ Len(g[s].out) < MaxPulls
    /\ \E o \in next_outcomes(g[s], frequencies) :
          /\ g' = [g EXCEPT ![s] = o.gen]
          /\ frequencies' = o.table
    /\ UNCHANGED <<history, length_of_history, mixup_period, phase, built,
                   prediction, pfh>>

\* ---------------------------------------------------------------- predict
\* max taken without the key function's counts: the first key of the dict
max_by_count_first_key(count) == count[1][1]

\* max(count, key=lambda x: count[x]): the first key, in insertion order,
\* of the highest count
max_by_count(count) ==
    count[CHOOSE j \in 1..Len(count) :
            /\ \A n \in 1..Len(count) : count[n][2] <= count[j][2]
            /\ \A n \in 1..(j - 1) : count[n][2] < count[j][2]][1]

\* lines 108-113: what one call of predict can do, and the table it leaves
predict_outcomes(table, recently_seen) ==
    LET t == defaultdict_getitem(table, recently_seen)
        count == t[recently_seen]
        base == [called |-> TRUE, seen |-> recently_seen, count |-> count,
                 fallback |-> FALSE, raised |-> FALSE, value |-> "none"]
    IN {[table |-> t, result |-> o] :
          o \in IF count # <<>>
                THEN {[base EXCEPT !.value = max_by_count(count)]}
                ELSE IF recently_seen = <<>>
                     THEN {[base EXCEPT !.fallback = TRUE, !.raised = TRUE]}
                     ELSE {[base EXCEPT !.fallback = TRUE, !.value = x] :
                              x \in Range(recently_seen)}}

NoPrediction ==
    [called |-> FALSE, seen |-> <<>>, count |-> <<>>,
     fallback |-> FALSE, raised |-> FALSE, value |-> "none"]

\* predict(frequencies, recently_seen) on the shared table
predict(recently_seen) ==
    /\ phase = "built"
    /\ ~prediction.called
    /\ \E o \in predict_outcomes(frequencies, recently_seen) :
          /\ prediction' = o.result
          /\ frequencies' = o.table
    /\ UNCHANGED <<history, length_of_history, mixup_period, phase, built,
                   g, pfh>>

\* history[-length_of_history:]: -0 is 0, so the slice is the whole list
\* when length_of_history is 0, as it is when it exceeds the length
slice_last(hist, n) ==
    IF n = 0 \/ n >= Len(hist) THEN hist
    ELSE SubSeq(hist, Len(hist) - n + 1, Len(hist))

\* predict_from_history(history, length_of_history): a table of its own
predict_from_history ==
    /\ ~pfh.called
    /\ \E o \in predict_outcomes(
                   calculate_frequencies(history, length_of_history),
                   slice_last(history, length_of_history)) :
          pfh' = o.result
    /\ UNCHANGED <<history, length_of_history, mixup_period, phase, built,
                   frequencies, g, prediction>>

\* ------------------------------------------------------------ specification
\* the caller's inputs: a training sequence, the order and the mixup period
\* (None is falsy, as 0 is)
Init ==
    /\ history \in SeqsUpTo(MaxLen)
    /\ length_of_history \in 0..MaxK
    /\ mixup_period \in 0..MaxMixup
    /\ phase = "input"
    /\ built = EmptyTable
    /\ frequencies = EmptyTable
    /\ g = [s \in Streams |-> NewGenerator]
    /\ prediction = NoPrediction
    /\ pfh = NoPrediction

\* frequencies = calculate_frequencies(history, length_of_history); built
\* keeps the table as it was returned
build ==
    /\ phase = "input"
    /\ phase' = "built"
    /\ built' = calculate_frequencies(history, length_of_history)
    /\ frequencies' = built'
    /\ UNCHANGED <<history, length_of_history, mixup_period, g, prediction,
                   pfh>>

\* two streams over one table
Next ==
    \/ build
    \/ \E s \in Streams : generate_random_stream_from_frequencies(s)

Spec == Init /\ [][Next]_vars

\* the predictor and one stream over one table
NextPredict ==
    \/ build
    \/ \E recently_seen \in SeqsUpTo(length_of_history) :
          predict(recently_seen)
    \/ predict_from_history
    \/ generate_random_stream_from_frequencies(1)

SpecPredict == Init /\ [][NextPredict]_vars

\* the two concrete scenarios of the specification: order 1 over
\* [A, B, A, B, A, C] and over [A, B, A, B, A]
Scenarios ==
    {<<"A", "B", "A", "B", "A", "C">>, <<"A", "B", "A", "B", "A">>}

InitScenario ==
    /\ history \in Scenarios
    /\ length_of_history = 1
    /\ mixup_period \in 0..MaxMixup
    /\ phase = "input"
    /\ built = EmptyTable
    /\ frequencies = EmptyTable
    /\ g = [s \in Streams |-> NewGenerator]
    /\ prediction = NoPrediction
    /\ pfh = NoPrediction

NextScenario ==
    \/ build
    \/ generate_random_stream_from_frequencies(1)
    \/ predict_from_history

SpecScenario == InitScenario /\ [][NextScenario]_vars

\* ------------------------------------------------------------- properties
\* the last n elements of a sequence (all of it when it is shorter)
last_k(seq, n) ==
    SubSeq(seq, Len(seq) - Min(n, Len(seq)) + 1, Len(seq))

Front(seq) == SubSeq(seq, 1, Len(seq) - 1)

\* the successors a table records for a context, without touching the table
recorded(table, c) == IF c \in DOMAIN table THEN table[c] ELSE <<>>

\* the stream has been through the top of its while loop at least once
ticked(s) == g[s].pc \in {"mixup", "step", "recover", "diverged"}

\* C1: at every STEP the successor multiset sampled from is the one recorded
\* for the trailing k symbols the stream emitted before the sample.
C1_ContextContinuity ==
    \A s \in Streams :
        g[s].pc = "step" =>
            g[s].options =
                recorded(built, last_k(Front(g[s].out), length_of_history))

\* C2: a forced re-seed happens on a tick only if the number of symbols
\* emitted so far is a positive multiple of mixup_period.
C2_MixupTiming ==
    \A s \in Streams :
        (ticked(s) /\ g[s].mixed) =>
            (g[s].tick_at > 0 /\ g[s].tick_at % mixup_period = 0)

\* C3: a tick that performs a forced re-seed does not also emit a sampled
\* successor.
C3_MixupReplacesStep ==
    \A s \in Streams : g[s].pc = "step" => ~g[s].mixed

\* C4: predict_from_history looks up the context made of exactly the last
\* k elements of history (the empty tuple for k = 0).
C4_PredictContext ==
    pfh.called => pfh.seen = last_k(history, length_of_history)

\* C5: when the lookup context has no recorded successors,
\* predict_from_history does not raise and returns one of the last k
\* elements of history.
C5_FallbackNeverCrashes ==
    (pfh.called /\ pfh.fallback) =>
        /\ ~pfh.raised
        /\ pfh.value \in Range(last_k(history, length_of_history))

\* C6: after build, no pull and no predict call changes the key set or a
\* count of the table.
C6_TableReadOnly ==
    phase = "built" => frequencies = built

\* C7: a stream over a shared table seeds from the contexts of the table as
\* built and sees, for each context, the successors recorded at build.
C7_SharedTableSafe ==
    \A s \in Streams :
        /\ g[s].pc \notin {"created", "raised"} =>
              g[s].known_subsequences = DOMAIN built
        /\ ticked(s) => g[s].options = recorded(built, g[s].ctx)

\* C8 as stated: with k >= 1 no STEP finds an empty successor multiset and
\* RECOVERY never happens.
C8_RecoveryUnreachable ==
    length_of_history >= 1 =>
        \A s \in Streams :
            ticked(s) => (g[s].options # <<>> /\ g[s].pc # "recover")

\* C8 amended: with k >= 1 a STEP finds an empty successor multiset exactly
\* when the context it looked up is not a context of the table as built, and
\* RECOVERY happens only then.
C8_RecoveryOnlyForUnknownContext ==
    length_of_history >= 1 =>
        \A s \in Streams :
            ticked(s) =>
                /\ (g[s].options = <<>>) <=> (g[s].ctx \notin DOMAIN built)
                /\ g[s].pc = "recover" => g[s].options = <<>>

C8_Witness ==
    \E s \in Streams :
        /\ length_of_history >= 1
        /\ mixup_period = 0
        /\ g[s].pc = "recover"
        /\ g[s].ctx = last_k(history, length_of_history)
        /\ g[s].ctx \notin DOMAIN built

\* C9: every SEED (initial, mixup, recovery) emits exactly k symbols that
\* are, in order, a context of the table built from the training sequence.
C9_SeedCoverage ==
    \A s \in Streams :
        g[s].pc \in {"seed", "mixup", "recover"} =>
            /\ Len(g[s].chosen) = length_of_history
            /\ g[s].chosen \in DOMAIN built

\* the number of positions of hist where c is immediately followed by x
occurrences(hist, c, x) ==
    Cardinality({p \in 1..(Len(hist) - Len(c)) :
                    /\ SubSeq(hist, p, p + Len(c) - 1) = c
                    /\ hist[p + Len(c)] = x})

\* C10: count[c][s] of the built table is the number of positions where the
\* k symbols c are immediately followed by s in the training sequence, and
\* the table has no other keys.
C10_CountConservation ==
    phase = "built" =>
        /\ DOMAIN built \subseteq [1..length_of_history -> Symbols]
        /\ \A c \in [1..length_of_history -> Symbols] : \A x \in Symbols :
              counter_get(recorded(built, c), x) = occurrences(history, c, x)
        /\ \A c \in DOMAIN built : \A j, n \in 1..Len(built[c]) :
              built[c][j][1] = built[c][n][1] => j = n

C10_Witness ==
    /\ phase = "built"
    /\ length_of_history = 2
    /\ \E c \in DOMAIN built :
          /\ Len(built[c]) = 2
          /\ built[c][1][2] + built[c][2][2] = 2


\* C11: a stream over a table with zero contexts fails on its first pull,
\* before it emits anything, and stays failed (the IndexError of
\* random.choice is neither caught nor retried).
C11_EmptyModelFailure ==
    \A s \in Streams :
        (g[s].pc # "created" /\ g[s].known_subsequences = {}) =>
            (g[s].pc = "raised" /\ g[s].out = <<>>)

C11_Witness ==
    \E s \in Streams :
        /\ phase = "built"
        /\ DOMAIN built = {}
        /\ g[s].pc = "raised"
        /\ g[s].out = <<>>

\* C12: a training sequence shorter than k + 1 (the empty one included)
\* builds a table with zero contexts.
C12_ShortSequenceEmptyTable ==
    (phase = "built" /\ Len(history) < length_of_history + 1) =>
        DOMAIN built = {}

C12_Witness ==
    /\ phase = "built"
    /\ Len(history) = 2
    /\ length_of_history = 2
    /\ DOMAIN built = {}


\* the generator is suspended at a yield: its last pull returned a symbol
at_yield(r) == r.pc \in {"seed", "mixup", "step", "recover"}

\* C13: in a stream whose initial SEED succeeded no pull raises; a STEP that
\* finds no successors is followed by a re-seed from a known context of k
\* symbols (after the mixup of that tick, when there is one).
C13_RecoveryNonFatal ==
    \A s \in Streams :
        (g[s].pc # "created" /\ g[s].known_subsequences # {}) =>
            /\ g[s].pc # "raised"
            /\ (ticked(s) /\ g[s].options = <<>>) =>
                  g[s].pc \in {"mixup", "recover"}
            /\ g[s].pc = "recover" =>
                  /\ g[s].options = <<>>
                  /\ g[s].chosen \in g[s].known_subsequences
                  /\ Len(g[s].chosen) = length_of_history

C13_Witness ==
    \E s \in Streams :
        /\ g[s].pc = "recover"
        /\ g[s].options = <<>>
        /\ g[s].pend = <<>>
        /\ Len(g[s].out) >= 3

\* C14: over a table built from at least k + 1 symbols a stream is never
\* in a terminal state and every pull returns exactly one more symbol.
C14_StreamInfinite ==
    (phase = "built" /\ Len(history) >= length_of_history + 1) =>
        \A s \in Streams :
            /\ g[s].pc \notin {"raised", "diverged"}
            /\ next_outcomes(g[s], frequencies) # {}
            /\ \A o \in next_outcomes(g[s], frequencies) :
                  /\ at_yield(o.gen)
                  /\ Len(o.gen.out) = Len(g[s].out) + 1

C14_Witness ==
    \E s \in Streams :
        /\ Len(history) >= length_of_history + 1
        /\ length_of_history = 0
        /\ mixup_period > 0
        /\ Len(g[s].out) >= 3


\* the value is a successor of the counter with no count above its own
is_argmax(count, value) ==
    \E j \in 1..Len(count) :
        /\ count[j][1] = value
        /\ \A n \in 1..Len(count) : count[n][2] <= count[j][2]

\* C15: when the lookup context has a recorded successor, predict (on the
\* shared table or through predict_from_history) returns, without raising
\* or falling back, a successor of that context whose count is at least
\* that of every other successor.
C15_ArgmaxPrediction ==
    /\ (prediction.called /\ recorded(built, prediction.seen) # <<>>) =>
          /\ ~prediction.raised /\ ~prediction.fallback
          /\ is_argmax(recorded(built, prediction.seen), prediction.value)
    /\ (pfh.called /\ recorded(calculate_frequencies(history,
                                   length_of_history), pfh.seen) # <<>>) =>
          /\ ~pfh.raised /\ ~pfh.fallback
          /\ is_argmax(recorded(calculate_frequencies(history,
                                    length_of_history), pfh.seen), pfh.value)

C15_Witness ==
    /\ prediction.called
    /\ Len(recorded(built, prediction.seen)) = 2
    /\ recorded(built, prediction.seen)[1][2]
          < recorded(built, prediction.seen)[2][2]
    /\ prediction.value = recorded(built, prediction.seen)[2][1]

\* C16: over [A, B, A, B, A, C] with k = 1 and no mixup the table is
\* (A) -> {B: 2, C: 1}, (B) -> {A: 2}; a stream seeded at (B) emits B, then
\* A sampled from {A: 2}, then B or C sampled from {B: 2, C: 1}.
C16_Scenario ==
    (history = <<"A", "B", "A", "B", "A", "C">> /\ mixup_period = 0
     /\ Len(g[1].out) >= 1 /\ g[1].out[1] = "B") =>
        /\ Len(g[1].out) >= 2 => g[1].out[2] = "A"
        /\ Len(g[1].out) = 2 => g[1].options = <<<<"A", 2>>>>
        /\ Len(g[1].out) >= 3 => g[1].out[3] \in {"B", "C"}
        /\ Len(g[1].out) = 3 => g[1].options = <<<<"B", 2>>, <<"C", 1>>>>

C16_Witness ==
    /\ history = <<"A", "B", "A", "B", "A", "C">>
    /\ mixup_period = 0
    /\ g[1].out = <<"B", "A", "C">>
    /\ g[1].pc = "step"


\* the Recent-Context Buffer once the generator has appended the symbol it
\* has just yielded (the append follows the yield, at the next pull)
buffer(s) ==
    IF at_yield(g[s])
    THEN deque_append(g[s].recent, g[s].item, length_of_history)
    ELSE g[s].recent

\* C17: after every emitted symbol the buffer holds at most k symbols and
\* they are the last min(k, number emitted) symbols of the stream in
\* emission order; when a SEED has emitted its last symbol the buffer is
\* the chosen context.
C17_BufferInvariant ==
    \A s \in Streams :
        at_yield(g[s]) =>
            /\ Len(buffer(s)) <= length_of_history
            /\ buffer(s) = last_k(g[s].out, length_of_history)
            /\ (g[s].pc \in {"seed", "mixup", "recover"} /\ g[s].pend = <<>>)
                  => buffer(s) = g[s].chosen

C17_Witness ==
    \E s \in Streams :
        /\ length_of_history = 2
        /\ g[s].pc = "recover"
        /\ Len(g[s].out) = 4
        /\ buffer(s) = <<g[s].out[3], g[s].out[4]>>

\* hist has the window w as a run of consecutive symbols
has_window(hist, w) ==
    \E p \in 1..(Len(hist) - Len(w) + 1) :
        SubSeq(hist, p, p + Len(w) - 1) = w

\* C18: without mixup_period every symbol emitted by a STEP has a positive
\* count in the built table for the k symbols emitted just before it, and
\* those k + 1 symbols are a window of the training sequence.
C18_StepFollowsTraining ==
    \A s \in Streams :
        (mixup_period = 0 /\ g[s].pc = "step") =>
            LET before == last_k(Front(g[s].out), length_of_history)
            IN /\ Len(before) = length_of_history
               /\ counter_get(recorded(built, before), g[s].item) > 0
               /\ has_window(history, Append(before, g[s].item))

C18_Witness ==
    \E s \in Streams :
        /\ mixup_period = 0
        /\ length_of_history = 2
        /\ g[s].pc = "step"
        /\ Len(g[s].out) = 4

\* C19: right after build every context key has exactly k symbols and at
\* least one successor, and every recorded count is at least 1.
C19_BuiltTableWellFormed ==
    phase = "built" =>
        \A c \in DOMAIN built :
            /\ Len(c) = length_of_history
            /\ built[c] # <<>>
            /\ \A j \in 1..Len(built[c]) : built[c][j][2] >= 1

C19_Witness ==
    /\ phase = "built"
    /\ length_of_history = 2
    /\ Cardinality(DOMAIN built) = 2
    /\ Len(history) = 4

====
